---- MODULE Spec2Model ----
(***************************************************************************)
(* instance-forge: the environment validator (schedulingfield.py), the     *)
(* instance generator (instance.py), the catalog (dataloader.py) and the   *)
(* constructors of InstanceConfig and Job as a state machine.              *)
(*                                                                         *)
(* Python values are tagged, so that the comparisons of the code come out  *)
(* as Python computes them: a SchedulingField member is never equal to a   *)
(* str, whatever its value.                                                *)
(***************************************************************************)
EXTENDS Integers, Sequences, FiniteSets, TLC

VARIABLES env, inst, runs, loader, conf, job, mach, op

vars == <<env, inst, runs, loader, conf, job, mach, op>>

(***************************************************************************)
(* Bounds of the model.                                                    *)
(***************************************************************************)
MaxSize == 2
MaxBetaLen == 2
MaxIndex == 2
MaxRuns == 2
MaxInstances == 2
MaxOps == 2
MaxSchedule == 2
MaxCalls == 2

(***************************************************************************)
(* Python values.                                                          *)
(***************************************************************************)
Member(n, val) == [t |-> "enum", name |-> n, v |-> val]

Str(s) == [t |-> "str", name |-> "", v |-> s]

None == [t |-> "none", name |-> "", v |-> ""]

StrSet(S) == {Str(s) : s \in S}

(***************************************************************************)
(* class SchedulingField(Enum)                                             *)
(***************************************************************************)
SINGLE_MACHINE == Member("SINGLE_MACHINE", "1")
PARALLEL_IDENTICAL == Member("PARALLEL_IDENTICAL", "P")
PARALLEL_DIFFERENT == Member("PARALLEL_DIFFERENT", "Q")
PARALLEL_UNRELATED == Member("PARALLEL_UNRELATED", "R")
FLOWSHOP == Member("FLOWSHOP", "F")
JOBSHOP == Member("JOBSHOP", "J")
OPENSHOP == Member("OPENSHOP", "O")
FLEXIBLE_FLOWSHOP_IDENTICAL == Member("FLEXIBLE_FLOWSHOP_IDENTICAL", "FF_P")
FLEXIBLE_FLOWSHOP_DIFFERENT == Member("FLEXIBLE_FLOWSHOP_DIFFERENT", "FF_Q")
FLEXIBLE_FLOWSHOP_UNRELATED == Member("FLEXIBLE_FLOWSHOP_UNRELATED", "FF_R")
FLEXIBLE_JOBSHOP_IDENTICAL == Member("FLEXIBLE_JOBSHOP_IDENTICAL", "FJ_P")
FLEXIBLE_JOBSHOP_DIFFERENT == Member("FLEXIBLE_JOBSHOP_DIFFERENT", "FJ_Q")
FLEXIBLE_JOBSHOP_UNRELATED == Member("FLEXIBLE_JOBSHOP_UNRELATED", "FJ_R")
FLEXIBLE_OPENSHOP_IDENTICAL == Member("FLEXIBLE_OPENSHOP_IDENTICAL", "FO_P")
FLEXIBLE_OPENSHOP_DIFFERENT == Member("FLEXIBLE_OPENSHOP_DIFFERENT", "FO_Q")
FLEXIBLE_OPENSHOP_UNRELATED == Member("FLEXIBLE_OPENSHOP_UNRELATED", "FO_R")

NO_CONSTRAINTS == Member("NO_CONSTRAINTS", "")
PRECEDENCE == Member("PRECEDENCE", "prec")
RELEASE_TIMES == Member("RELEASE_TIMES", "r_j")
DUE_DATES == Member("DUE_DATES", "d_j")
DEADLINES == Member("DEADLINES", "bar_d_j")
SETUP_TIMES == Member("SETUP_TIMES", "s_ij")
SEQUENCE_DEPENDENT_SETUP == Member("SEQUENCE_DEPENDENT_SETUP", "s_jk")
MACHINE_ELIGIBILITY == Member("MACHINE_ELIGIBILITY", "M_j")
MACHINE_CENTER_ELIGIBILITY == Member("MACHINE_CENTER_ELIGIBILITY", "M_j_c")
MACHINE_OPERATION_ELIGIBILITY == Member("MACHINE_OPERATION_ELIGIBILITY", "M_")
NO_WAIT == Member("NO_WAIT", "nwt")
PREEMPTION == Member("PREEMPTION", "prmp")
BLOCK == Member("BLOCK", "block")
BREAKDOWNS == Member("BREAKDOWNS", "brkdwn")
PERMUTATION == Member("PERMUTATION", "perm")
RECIRCULATION == Member("RECIRCULATION", "rcrc")

MAKESPAN == Member("MAKESPAN", "C_max")
TOTAL_COMPLETION_TIME == Member("TOTAL_COMPLETION_TIME", "sum_C_j")
TOTAL_WEIGHTED_COMPLETION == Member("TOTAL_WEIGHTED_COMPLETION", "sum_w_j_C_j")
EARLYNESS == Member("EARLYNESS", "sum_E_j")
WEIGHTED_EARLYNESS == Member("WEIGHTED_EARLYNESS", "sum_w_j_E_j")
MAX_LATENESS == Member("MAX_LATENESS", "L_max")
TOTAL_TARDINESS == Member("TOTAL_TARDINESS", "sum_T_j")
WEIGHTED_TARDINESS == Member("WEIGHTED_TARDINESS", "sum_w_j_T_j")
NUMBER_LATE_JOBS == Member("NUMBER_LATE_JOBS", "sum_U_j")
WEIGHTED_LATE_JOBS == Member("WEIGHTED_LATE_JOBS", "sum_w_j_U_j")
TOTAL_ABS_DEVIATION == Member("TOTAL_ABS_DEVIATION", "sum_d_j-C_j")

\* the members declared under "# alpha field", "# beta field", "# gamma field"
AlphaSection ==
    {SINGLE_MACHINE, PARALLEL_IDENTICAL, PARALLEL_DIFFERENT, PARALLEL_UNRELATED,
     FLOWSHOP, JOBSHOP, OPENSHOP,
     FLEXIBLE_FLOWSHOP_IDENTICAL, FLEXIBLE_FLOWSHOP_DIFFERENT, FLEXIBLE_FLOWSHOP_UNRELATED,
     FLEXIBLE_JOBSHOP_IDENTICAL, FLEXIBLE_JOBSHOP_DIFFERENT, FLEXIBLE_JOBSHOP_UNRELATED,
     FLEXIBLE_OPENSHOP_IDENTICAL, FLEXIBLE_OPENSHOP_DIFFERENT, FLEXIBLE_OPENSHOP_UNRELATED}

BetaSection ==
    {NO_CONSTRAINTS, PRECEDENCE, RELEASE_TIMES, DUE_DATES, DEADLINES, SETUP_TIMES,
     SEQUENCE_DEPENDENT_SETUP, MACHINE_ELIGIBILITY, MACHINE_CENTER_ELIGIBILITY,
     MACHINE_OPERATION_ELIGIBILITY, NO_WAIT, PREEMPTION, BLOCK, BREAKDOWNS,
     PERMUTATION, RECIRCULATION}

GammaSection ==
    {MAKESPAN, TOTAL_COMPLETION_TIME, TOTAL_WEIGHTED_COMPLETION, EARLYNESS,
     WEIGHTED_EARLYNESS, MAX_LATENESS, TOTAL_TARDINESS, WEIGHTED_TARDINESS,
     NUMBER_LATE_JOBS, WEIGHTED_LATE_JOBS, TOTAL_ABS_DEVIATION}

SchedulingField == AlphaSection \cup BetaSection \cup GammaSection

\* [f for f in cls if f.name in {...}]
alpha_fields ==
    {f \in SchedulingField : f.name \in
        {"SINGLE_MACHINE", "PARALLEL_IDENTICAL", "PARALLEL_UNRELATED", "FLOWSHOP",
         "JOBSHOP", "OPENSHOP", "FLEXIBLE_FLOWSHOP", "FLEXIBLE_JOBSHOP"}}

beta_fields ==
    {f \in SchedulingField : f.name \in
        {"NO_CONSTRAINTS", "PRECEDENCE", "RELEASE_TIMES", "DUE_DATES", "DEADLINES",
         "SETUP_TIMES", "SEQUENCE_DEPENDENT_SETUP", "MACHINE_ELIGIBILITY", "NO_WAIT",
         "PREEMPTION", "BLOCK", "BREAKDOWNS", "PERMUTATION", "RECIRCULATION",
         "BATCH", "JOB_FAMILIES"}}

gamma_fields ==
    {f \in SchedulingField : f.name \in
        {"MAKESPAN", "TOTAL_COMPLETION_TIME", "TOTAL_TARDINESS", "WEIGHTED_TARDINESS",
         "TOTAL_WEIGHTED_COMPLETION", "MAX_LATENESS", "NUMBER_TARDY_JOBS"}}

(***************************************************************************)
(* class InstanceEnvironment: the tables                                   *)
(***************************************************************************)
_CONFLICTING_ALPHA_BETA_PAIRS ==
    {<<"1", "M_j">>, <<"1", "M_j_c">>, <<"1", "rcrc">>, <<"1", "nwt">>,
     <<"P", "perm">>, <<"P", "nwt">>, <<"P", "rcrc">>, <<"P", "M_j_c">>,
     <<"Q", "perm">>, <<"Q", "nwt">>, <<"Q", "rcrc">>, <<"Q", "M_j_c">>,
     <<"R", "perm">>, <<"R", "nwt">>, <<"R", "rcrc">>, <<"R", "M_j_c">>,
     <<"F", "prmp">>, <<"F", "M_j">>, <<"F", "rcrc">>, <<"F", "M_j_c">>,
     <<"J", "block">>, <<"J", "perm">>, <<"J", "M_j">>, <<"J", "M_j_c">>,
     <<"O", "block">>, <<"O", "perm">>, <<"O", "M_j">>, <<"O", "M_j_c">>,
     <<"O", "rcrc">>,
     <<"FF_P", "prmp">>, <<"FF_P", "nwt">>, <<"FF_P", "rcrc">>,
     <<"FF_Q", "prmp">>, <<"FF_Q", "nwt">>, <<"FF_Q", "rcrc">>,
     <<"FF_R", "prmp">>, <<"FF_R", "nwt">>, <<"FF_R", "rcrc">>,
     <<"FJ_P", "nwt">>, <<"FJ_Q", "nwt">>, <<"FJ_R", "nwt">>}

_CONFLICTING_BETA_PAIRS ==
    {<<"nwt", "prmp">>, <<"nwt", "s_ij">>, <<"nwt", "s_jk">>, <<"nwt", "block">>,
     <<"s_ij", "s_jk">>, <<"perm", "rcrc">>, <<"perm", "block">>,
     <<"batch", "nwt">>, <<"batch", "prmp">>, <<"M_j", "M_j_c">>}

_WEIGHTED_GAMMA_FIELDS ==
    StrSet({"sum_w_j_C_j", "sum_w_j_E_j", "sum_w_j_T_j", "sum_w_j_U_j"})

\* only ever compared with gamma.value, a str
_TIME_GAMMA_FIELDS ==
    {"L_max", "sum_E_j", "sum_w_j_E_j", "sum_T_j", "sum_w_j_T_j", "sum_U_j",
     "sum_w_j_U_j", "sum_d_j-C_j"}

_CENTER_ALPHA_FIELDS ==
    StrSet({"FF_P", "FF_Q", "FF_R", "FJ_P", "FJ_Q", "FJ_R", "FO_P", "FO_Q", "FO_R"})

_IDENTICAL_ALPHA_FIELDS == StrSet({"P", "FF_P", "FJ_P", "FO_P"})

_DIFFERENT_ALPHA_FIELDS == StrSet({"Q", "FF_Q", "FJ_Q", "FO_Q"})

_UNRELATED_ALPHA_FIELDS == StrSet({"R", "FF_R", "FJ_R", "FO_R"})

_FLOWSHOP_ALPHA_FIELDS == StrSet({"F", "FF_P", "FF_Q", "FF_R"})

_JOBSHOP_ALPHA_FIELDS == StrSet({"J", "FJ_P", "FJ_Q", "FJ_R"})

_OPENSHOP_ALPHA_FIELDS == StrSet({"O", "FO_P", "FO_Q", "FO_R"})

_REQUIRED_BETA_FOR_TARDINESS == {"d_j", "bar_d_j"}

(***************************************************************************)
(* InstanceEnvironment.__init__: the checks.  Each returns Ok or the kind  *)
(* of the ValueError it raises.                                            *)
(***************************************************************************)
Ok == "ok"

\* beta if beta is not None else []
BetaOf(a) == IF a.beta_given THEN a.beta ELSE <<>>

\* set(b.value for b in self.beta)
BetaValues(beta) == {beta[i].v : i \in 1..Len(beta)}

\* SizingError with ">=" for ">" in the last test
SizingError_GeqJobs(a) ==
    IF a.num_jobs <= 0 THEN "num_jobs"
    ELSE IF a.num_machines <= 0 THEN "num_machines"
    ELSE IF a.num_centers <= 0 THEN "num_centers"
    ELSE IF a.num_machines >= a.num_jobs THEN "machines_gt_jobs"
    ELSE Ok

\* lines 248-258
SizingError(a) ==
    IF a.num_jobs <= 0 THEN "num_jobs"
    ELSE IF a.num_machines <= 0 THEN "num_machines"
    ELSE IF a.num_centers <= 0 THEN "num_centers"
    ELSE IF a.num_machines > a.num_jobs THEN "machines_gt_jobs"
    ELSE Ok

\* validate_alpha_field without the elif of line 423
_validate_alpha_field_NoElif(a) ==
    IF a.alpha \notin alpha_fields THEN "alpha_invalid"
    ELSE IF a.alpha = SINGLE_MACHINE /\ a.num_machines # 1 THEN "single_machine_count"
    ELSE IF a.alpha \in _CENTER_ALPHA_FIELDS /\ a.num_centers # 1 THEN "center_alpha_count"
    ELSE IF a.alpha \notin _CENTER_ALPHA_FIELDS /\ a.num_centers > 1 THEN "plain_alpha_count"
    ELSE Ok

_validate_alpha_field(a) ==
    IF a.alpha \notin alpha_fields THEN "alpha_invalid"
    ELSE IF a.alpha = SINGLE_MACHINE /\ a.num_machines # 1 THEN "single_machine_count"
    ELSE IF a.alpha # SINGLE_MACHINE /\ a.num_machines = 1 THEN "one_machine_alpha"
    ELSE IF a.alpha \in _CENTER_ALPHA_FIELDS /\ a.num_centers # 1 THEN "center_alpha_count"
    ELSE IF a.alpha \notin _CENTER_ALPHA_FIELDS /\ a.num_centers > 1 THEN "plain_alpha_count"
    ELSE Ok

_validate_beta_field(a) ==
    LET beta == BetaOf(a)
        invalid_beta_fields == {i \in 1..Len(beta) : beta[i] \notin beta_fields}
    IN  IF Cardinality(invalid_beta_fields) > 0 THEN "beta_invalid" ELSE Ok

_validate_gamma_field(a) ==
    IF a.gamma = None THEN "gamma_none"
    ELSE IF a.gamma \notin gamma_fields THEN "gamma_invalid"
    ELSE Ok

\* validate_beta_combinations testing a pair only in the order of the list
_validate_beta_combinations_InOrder(a) ==
    LET beta == BetaOf(a)
        beta_set == BetaValues(beta)
    IN  IF Len(beta) = 0 THEN Ok
        ELSE IF "" \in beta_set /\ Cardinality(beta_set) > 1 THEN "no_constraints_combined"
        ELSE IF \E i \in 1..Len(beta), j \in 1..Len(beta) :
                    i < j /\ <<beta[i].v, beta[j].v>> \in _CONFLICTING_BETA_PAIRS
             THEN "beta_conflict"
        ELSE Ok

_validate_beta_combinations(a) ==
    LET beta == BetaOf(a)
        beta_set == BetaValues(beta)
    IN  IF Len(beta) = 0 THEN Ok
        ELSE IF "" \in beta_set /\ Cardinality(beta_set) > 1 THEN "no_constraints_combined"
        ELSE IF \E conflict_pair \in _CONFLICTING_BETA_PAIRS :
                    conflict_pair[1] \in beta_set /\ conflict_pair[2] \in beta_set
             THEN "beta_conflict"
        ELSE Ok

\* validate_alpha_beta_dependencies looking at the first beta symbol only
_validate_alpha_beta_dependencies_FirstOnly(a) ==
    LET alpha_value == a.alpha.v
        beta == BetaOf(a)
    IN  IF Len(beta) > 0 /\ <<alpha_value, beta[1].v>> \in _CONFLICTING_ALPHA_BETA_PAIRS
        THEN "alpha_beta_conflict"
        ELSE Ok

_validate_alpha_beta_dependencies(a) ==
    LET alpha_value == a.alpha.v
        beta_set == BetaValues(BetaOf(a))
    IN  IF \E beta_value \in beta_set :
                <<alpha_value, beta_value>> \in _CONFLICTING_ALPHA_BETA_PAIRS
        THEN "alpha_beta_conflict"
        ELSE Ok

\* validate_gamma_beta_dependencies returning early on an empty beta
_validate_gamma_beta_dependencies_SkipEmpty(a) ==
    LET gamma_value == a.gamma.v
        beta_set == BetaValues(BetaOf(a))
    IN  IF a.gamma = None \/ Len(BetaOf(a)) = 0 THEN Ok
        ELSE IF gamma_value \in _TIME_GAMMA_FIELDS
                /\ beta_set \cap _REQUIRED_BETA_FOR_TARDINESS = {}
             THEN "gamma_beta_dependency"
        ELSE Ok

_validate_gamma_beta_dependencies(a) ==
    LET gamma_value == a.gamma.v
        beta_set == BetaValues(BetaOf(a))
    IN  IF a.gamma = None THEN Ok
        ELSE IF gamma_value \in _TIME_GAMMA_FIELDS
                /\ beta_set \cap _REQUIRED_BETA_FOR_TARDINESS = {}
             THEN "gamma_beta_dependency"
        ELSE Ok

\* the checks in the order in which the class defines them
ValidationError_DefinitionOrder(a) ==
    IF SizingError(a) # Ok THEN SizingError(a)
    ELSE IF _validate_alpha_field(a) # Ok THEN _validate_alpha_field(a)
    ELSE IF _validate_beta_field(a) # Ok THEN _validate_beta_field(a)
    ELSE IF _validate_gamma_field(a) # Ok THEN _validate_gamma_field(a)
    ELSE IF _validate_beta_combinations(a) # Ok THEN _validate_beta_combinations(a)
    ELSE IF _validate_alpha_beta_dependencies(a) # Ok
         THEN _validate_alpha_beta_dependencies(a)
    ELSE _validate_gamma_beta_dependencies(a)

\* lines 248-273: the sizing tests, then the six _validate_ calls in order;
\* the first one that raises ends the constructor
ValidationError(a) ==
    IF SizingError(a) # Ok THEN SizingError(a)
    ELSE IF _validate_alpha_field(a) # Ok THEN _validate_alpha_field(a)
    ELSE IF _validate_beta_field(a) # Ok THEN _validate_beta_field(a)
    ELSE IF _validate_alpha_beta_dependencies(a) # Ok
         THEN _validate_alpha_beta_dependencies(a)
    ELSE IF _validate_beta_combinations(a) # Ok THEN _validate_beta_combinations(a)
    ELSE IF _validate_gamma_field(a) # Ok THEN _validate_gamma_field(a)
    ELSE _validate_gamma_beta_dependencies(a)

(***************************************************************************)
(* InstanceEnvironment.__init__: the derived attributes                    *)
(***************************************************************************)
_get_num_operations(a) ==
    IF a.alpha \in {FLOWSHOP, JOBSHOP, OPENSHOP} THEN a.num_machines ELSE 1

\* Optional[Tuple[bool, bool]], <<>> for None
_get_is_fixed_sequence(a) ==
    IF a.alpha = FLOWSHOP THEN <<TRUE, TRUE>>
    ELSE IF a.alpha = JOBSHOP THEN <<TRUE, FALSE>>
    ELSE IF a.alpha = OPENSHOP THEN <<FALSE, FALSE>>
    ELSE <<>>

\* the attributes set by _get_alpha_setup; "alpha in <set of str>"
_get_alpha_setup(a) ==
    [is_identical |-> a.alpha \in _IDENTICAL_ALPHA_FIELDS,
     is_different |-> a.alpha \notin _IDENTICAL_ALPHA_FIELDS
                      /\ a.alpha \in _DIFFERENT_ALPHA_FIELDS,
     is_unrelated |-> a.alpha \notin _IDENTICAL_ALPHA_FIELDS
                      /\ a.alpha \notin _DIFFERENT_ALPHA_FIELDS
                      /\ a.alpha \in _UNRELATED_ALPHA_FIELDS,
     is_flowshop |-> a.alpha \in _FLOWSHOP_ALPHA_FIELDS,
     is_jobshop |-> a.alpha \notin _FLOWSHOP_ALPHA_FIELDS
                    /\ a.alpha \in _JOBSHOP_ALPHA_FIELDS,
     is_openshop |-> a.alpha \notin _FLOWSHOP_ALPHA_FIELDS
                     /\ a.alpha \notin _JOBSHOP_ALPHA_FIELDS
                     /\ a.alpha \in _OPENSHOP_ALPHA_FIELDS,
     is_distributed |-> FALSE]

BetaHas(a, f) == \E i \in 1..Len(BetaOf(a)) : BetaOf(a)[i] = f

_get_beta_setup(a) ==
    [is_breakdown |-> BetaHas(a, BREAKDOWNS),
     is_eligible |-> BetaHas(a, MACHINE_ELIGIBILITY)
                     \/ BetaHas(a, MACHINE_CENTER_ELIGIBILITY),
     is_same_eligible_machines |-> BetaHas(a, MACHINE_CENTER_ELIGIBILITY),
     is_release |-> BetaHas(a, RELEASE_TIMES),
     is_due |-> BetaHas(a, DUE_DATES),
     is_deadline |-> BetaHas(a, DEADLINES),
     is_precedence |-> BetaHas(a, PRECEDENCE),
     is_setuptime |-> BetaHas(a, SETUP_TIMES),
     is_setuptime_seq |-> BetaHas(a, SEQUENCE_DEPENDENT_SETUP)]

_get_gamma_setup(a) == [is_weighted |-> a.gamma \in _WEIGHTED_GAMMA_FIELDS]

(***************************************************************************)
(* InstanceEnvironment._generate_seed.  An int is kept as two 16-bit       *)
(* halves [hi, lo] (value hi * 2^16 + lo).  SHA-256 is a fixed function of *)
(* the encoded string; Sha256Mod32 stands for it with a fixed mixing of    *)
(* the string's tokens, reduced modulo 2^32 as line 410 does.              *)
(***************************************************************************)
TwoPow16 == 256 * 256

\* the values of all members, in the order of Python's str comparison
ValuesInOrder ==
    <<"", "1", "C_max", "F", "FF_P", "FF_Q", "FF_R", "FJ_P", "FJ_Q", "FJ_R",
      "FO_P", "FO_Q", "FO_R", "J", "L_max", "M_", "M_j", "M_j_c", "O", "P", "Q",
      "R", "bar_d_j", "block", "brkdwn", "d_j", "nwt", "perm", "prec", "prmp",
      "r_j", "rcrc", "s_ij", "s_jk", "sum_C_j", "sum_E_j", "sum_T_j", "sum_U_j",
      "sum_d_j-C_j", "sum_w_j_C_j", "sum_w_j_E_j", "sum_w_j_T_j", "sum_w_j_U_j">>

StrRank(s) == CHOOSE i \in 1..Len(ValuesInOrder) : ValuesInOrder[i] = s

RECURSIVE InsertSorted(_, _)
InsertSorted(sorted, s) ==
    IF sorted = <<>> THEN <<s>>
    ELSE IF StrRank(s) < StrRank(Head(sorted)) THEN <<s>> \o sorted
    ELSE <<Head(sorted)>> \o InsertSorted(Tail(sorted), s)

\* sorted(b.value for b in self.beta)
RECURSIVE SortedValues(_)
SortedValues(beta) ==
    IF beta = <<>> THEN <<>>
    ELSE InsertSorted(SortedValues(Tail(beta)), Head(beta).v)

\* the tokens of str(combined): a str by its rank, an int n by 100 + n,
\* the parentheses of the inner tuple by 98 and 99
StrTokens(strs) == [i \in 1..Len(strs) |-> StrRank(strs[i])]

CombinedTokens(a, reverse) ==
    LET beta_val == <<98>> \o StrTokens(SortedValues(BetaOf(a))) \o <<99>>
    IN  IF reverse
        THEN <<100 + a.num_centers, 100 + a.num_machines, 100 + a.num_jobs,
               StrRank(a.gamma.v)>> \o beta_val \o <<StrRank(a.alpha.v)>>
        ELSE <<StrRank(a.alpha.v)>> \o beta_val
             \o <<StrRank(a.gamma.v), 100 + a.num_jobs, 100 + a.num_machines,
                  100 + a.num_centers>>

RECURSIVE Mix(_, _, _)
Mix(h, mult, tokens) ==
    IF tokens = <<>> THEN h
    ELSE Mix((h * mult + Head(tokens)) % TwoPow16, mult, Tail(tokens))

\* int(sha256(...).hexdigest(), 16) % (2**32)
Sha256Mod32(tokens) ==
    [hi |-> Mix(40503, 31, tokens), lo |-> Mix(5381, 33, tokens)]

_generate_seed(a, reverse) == Sha256Mod32(CombinedTokens(a, reverse))

\* seed + k for a small int k >= 0 (a Python int: no wrap-around)
IntAdd(seed, k) ==
    [hi |-> seed.hi + ((seed.lo + k) \div TwoPow16),
     lo |-> (seed.lo + k) % TwoPow16]

(***************************************************************************)
(* InstanceEnvironment(alpha, beta, gamma, num_jobs, num_machines,         *)
(* num_centers): the object built when no check raises.                    *)
(***************************************************************************)
NoEnv == [status |-> "none"]

Rejected(a, e) == [status |-> "rejected", error |-> e, args |-> a]

Accepted(a) ==
    [status |-> "accepted", error |-> Ok, args |-> a,
     alpha |-> a.alpha, beta |-> BetaOf(a), gamma |-> a.gamma,
     num_jobs |-> a.num_jobs, num_machines |-> a.num_machines,
     num_centers |-> a.num_centers,
     alpha_setup |-> _get_alpha_setup(a),
     beta_setup |-> _get_beta_setup(a),
     gamma_setup |-> _get_gamma_setup(a),
     num_operations |-> _get_num_operations(a),
     sequence_setup |-> _get_is_fixed_sequence(a),
     job_seed |-> _generate_seed(a, FALSE),
     machine_seed |-> _generate_seed(a, TRUE)]

InstanceEnvironment(a) ==
    LET e == ValidationError(a)
    IN  IF e = Ok THEN Accepted(a) ELSE Rejected(a, e)

(***************************************************************************)
(* The argument lists the constructor is called with.                      *)
(***************************************************************************)
Args(alpha, beta_given, beta, gamma, nj, nm, nc) ==
    [alpha |-> alpha, beta_given |-> beta_given, beta |-> beta, gamma |-> gamma,
     num_jobs |-> nj, num_machines |-> nm, num_centers |-> nc]

SizeRange == (0 - 1)..MaxSize

ListsOver(S, n) == UNION {[1..k -> S] : k \in 0..n}

\* sizes that fit alpha: one machine for "1", one center unless flexible
CoherentSizes(alpha) ==
    {<<nj, nm, nc>> \in (1..MaxSize) \X (1..MaxSize) \X (1..2) :
        /\ nm <= nj
        /\ (alpha = SINGLE_MACHINE) <=> (nm = 1)
        /\ (alpha.v \in {"FF_P", "FF_Q", "FF_R", "FJ_P", "FJ_Q", "FJ_R",
                         "FO_P", "FO_Q", "FO_R"}) <=> (nc > 1)}

BetaAlphabet == BetaSection \cup {JOBSHOP, MAKESPAN}

(***************************************************************************)
(* The validator as a state machine: one constructor call.                 *)
(***************************************************************************)
NoInst == [pc |-> "none"]

NoLoader == [status |-> "none"]

NoConfig == [status |-> "none"]

NoJob == [status |-> "none"]

NoMachine == [status |-> "none"]

NoOperation == [status |-> "none"]

Init ==
    /\ env = NoEnv
    /\ inst = NoInst
    /\ runs = <<>>
    /\ loader = NoLoader
    /\ conf = NoConfig
    /\ job = NoJob
    /\ mach = NoMachine
    /\ op = NoOperation

Construct(a) ==
    /\ env' = InstanceEnvironment(a)
    /\ UNCHANGED <<inst, runs, loader, conf, job, mach, op>>

\* every size triple, with arguments that break none, one or several rules
ValidateSizing ==
    /\ env.status = "none"
    /\ \E al \in {SINGLE_MACHINE, FLOWSHOP, JOBSHOP, PARALLEL_DIFFERENT,
                  FLEXIBLE_FLOWSHOP_IDENTICAL, MAKESPAN, None},
          be \in {<<>>, <<NO_WAIT, PREEMPTION>>, <<JOBSHOP>>, <<BLOCK>>},
          ga \in {MAKESPAN, TOTAL_TARDINESS, BLOCK, None},
          nj \in SizeRange, nm \in SizeRange, nc \in SizeRange :
        Construct(Args(al, TRUE, be, ga, nj, nm, nc))

\* every member (and None) as alpha and as gamma, beta given or omitted
ValidateFields ==
    /\ env.status = "none"
    /\ \E al \in SchedulingField \cup {None},
          bg \in BOOLEAN,
          be \in {<<>>, <<DUE_DATES>>},
          ga \in SchedulingField \cup {None},
          nm \in 1..2, nc \in 1..2 :
        /\ bg \/ be = <<>>
        /\ Construct(Args(al, bg, be, ga, 2, nm, nc))

\* every beta list up to MaxBetaLen, for every alpha, with coherent sizes
ValidateBeta ==
    /\ env.status = "none"
    /\ \E al \in AlphaSection,
          be \in ListsOver(BetaAlphabet, MaxBetaLen),
          ga \in {MAKESPAN, TOTAL_TARDINESS, EARLYNESS} :
        \E sz \in CoherentSizes(al) :
            Construct(Args(al, TRUE, be, ga, sz[1], sz[2], sz[3]))

\* four alphas, beta lists of at most two symbols, every objective
ValidateLegal ==
    /\ env.status = "none"
    /\ \E al \in {SINGLE_MACHINE, PARALLEL_IDENTICAL, FLOWSHOP, JOBSHOP},
          be \in {<<>>} \cup {<<b>> : b \in BetaSection}
                 \cup {<<b, c>> : b \in BetaSection, c \in BetaSection},
          ga \in GammaSection :
        \E sz \in CoherentSizes(al) :
            Construct(Args(al, TRUE, be, ga, sz[1], sz[2], sz[3]))

Validate == ValidateSizing \/ ValidateFields \/ ValidateBeta \/ ValidateLegal

Next == Validate

Spec == Init /\ [][Next]_vars

(***************************************************************************)
(* InstanceEnvironment.__str__.  A str is built from pieces: the values of *)
(* the members, the separators and the decimal form of the ints.           *)
(***************************************************************************)
\* sep.join(strs), as pieces
RECURSIVE join(_, _)
join(sep, strs) ==
    IF Len(strs) <= 1 THEN strs
    ELSE <<Head(strs), sep>> \o join(sep, Tail(strs))

\* the str made of the pieces
RECURSIVE Concat(_)
Concat(pieces) ==
    IF pieces = <<>> THEN "" ELSE Head(pieces) \o Concat(Tail(pieces))

\* str.replace(old, new) for a separator old: no value of a member and no
\* decimal form holds "|" or ","
replace(pieces, old, new) ==
    [k \in 1..Len(pieces) |-> IF pieces[k] = old THEN new ELSE pieces[k]]

\* lines 502-509
InstanceEnvironment__str__Pieces(e) ==
    LET alpha_str == e.alpha.v
        beta_str == join(",", [k \in 1..Len(e.beta) |-> e.beta[k].v])
        gamma_str == e.gamma.v
        machines_str == ToString(e.num_machines)
        alpha_full == <<alpha_str>>
                      \o (IF e.num_machines > 1 THEN <<machines_str>> ELSE <<>>)
    IN  alpha_full \o <<"|">> \o beta_str \o <<"|", gamma_str, "_n", ToString(e.num_jobs)>>

InstanceEnvironment__str__(e) == Concat(InstanceEnvironment__str__Pieces(e))

(***************************************************************************)
(* instanceconfig.py: InstanceConfig(instance_environment), with the       *)
(* default tunables.  Speeds are kept in tenths (0.9 is 9).                *)
(***************************************************************************)
DefaultTunables ==
    [process_time |-> <<2, 20>>,
     machine_speed |-> <<9, 11>>,
     eligible_machines |-> [min |-> 1, max_given |-> FALSE, max |-> 0],
     due_date_penalty |-> <<1, 5>>,
     predecessors |-> <<0, 2>>]

\* _validate_parameters without the cap of 2.0 on the machine speed
_validate_parameters_NoSpeedCap(t) ==
    IF ~(t.process_time[1] > 0 /\ t.process_time[2] > 0
         /\ t.process_time[1] <= t.process_time[2]) THEN "AssertionError"
    ELSE IF ~(t.machine_speed[1] > 0
              /\ t.machine_speed[1] <= t.machine_speed[2]) THEN "AssertionError"
    ELSE IF ~(t.eligible_machines.min > 0
              /\ (~t.eligible_machines.max_given
                  \/ t.eligible_machines.min <= t.eligible_machines.max))
         THEN "AssertionError"
    ELSE IF ~(t.due_date_penalty[1] > 0 /\ t.due_date_penalty[2] > 0
              /\ t.due_date_penalty[1] <= t.due_date_penalty[2]) THEN "AssertionError"
    ELSE IF ~(t.predecessors[1] >= 0 /\ t.predecessors[1] <= t.predecessors[2])
         THEN "AssertionError"
    ELSE Ok

\* _validate_parameters: the first assertion that fails, or Ok
_validate_parameters(t) ==
    IF ~(t.process_time[1] > 0 /\ t.process_time[2] > 0
         /\ t.process_time[1] <= t.process_time[2]) THEN "AssertionError"
    ELSE IF ~(t.machine_speed[1] > 0 /\ t.machine_speed[2] <= 20
              /\ t.machine_speed[1] <= t.machine_speed[2]) THEN "AssertionError"
    ELSE IF ~(t.eligible_machines.min > 0
              /\ (~t.eligible_machines.max_given
                  \/ t.eligible_machines.min <= t.eligible_machines.max))
         THEN "AssertionError"
    ELSE IF ~(t.due_date_penalty[1] > 0 /\ t.due_date_penalty[2] > 0
              /\ t.due_date_penalty[1] <= t.due_date_penalty[2]) THEN "AssertionError"
    ELSE IF ~(t.predecessors[1] >= 0 /\ t.predecessors[1] <= t.predecessors[2])
         THEN "AssertionError"
    ELSE Ok

\* __post_init__
InstanceConfig(e, t) ==
    [raised |-> _validate_parameters(t),
     job_seed |-> e.job_seed, machine_seed |-> e.machine_seed,
     num_jobs |-> e.num_jobs, num_centers |-> e.num_centers,
     num_machines |-> e.num_machines, num_operations |-> e.num_operations,
     tunables |-> t,
     flowshop |-> e.alpha_setup.is_flowshop,
     jobshop |-> e.alpha_setup.is_jobshop,
     openshop |-> e.alpha_setup.is_openshop,
     p_different |-> e.alpha_setup.is_different,
     p_unrelated |-> e.alpha_setup.is_unrelated,
     eligible |-> e.beta_setup.is_eligible,
     same_mj |-> e.beta_setup.is_same_eligible_machines,
     release |-> e.beta_setup.is_release,
     due |-> e.beta_setup.is_due,
     deadline |-> e.beta_setup.is_deadline,
     precedence |-> e.beta_setup.is_precedence,
     setup_necessary |-> e.beta_setup.is_setuptime_seq,
     breakdowns_possible |-> e.beta_setup.is_breakdown]

(***************************************************************************)
(* instance.py: Instance(instance_environment, seed)                       *)
(***************************************************************************)
\* random.Random(seed): the seed and the number of values drawn so far
Random(seed) == [seed |-> seed, draws |-> 0]

\* rand.uniform(lo, hi) rounded to one decimal, in tenths: a fixed function
\* of the seed and of the position in the stream
UniformTenths(rand, lo, hi) == lo + ((rand.seed.lo + rand.draws) % (hi - lo + 1))

\* center.py: Center.__init__(self, id, machines) has two required
\* parameters; a call with another number of arguments raises TypeError
CenterInit(args) ==
    IF Len(args) # 2 THEN [raised |-> "TypeError"]
    ELSE [raised |-> "", id |-> args[1], machines |-> args[2]]

\* the loop over j of _create_centers_machines, for center i
RECURSIVE MachinesLoop(_, _, _, _)
MachinesLoop(config, i, j, st) ==
    IF j >= config.num_machines THEN st
    ELSE LET draw == config.p_different \/ config.p_unrelated
             machine ==
                [id |-> j, center |-> i,
                 processing_speed |->
                    IF draw
                    THEN UniformTenths(st.machine_rand,
                                       config.tunables.machine_speed[1],
                                       config.tunables.machine_speed[2])
                    ELSE 10,
                 has_setup_times |-> config.setup_necessary, setup_times |-> {},
                 has_breakdowns |-> config.breakdowns_possible, breakdowns |-> <<>>,
                 schedule |-> <<>>]
         IN  MachinesLoop(config, i, j + 1,
                [st EXCEPT !.machine_rand.draws = IF draw THEN @ + 1 ELSE @,
                           !.centers[i + 1].machines = Append(@, machine)])

\* the loop over i of _create_centers_machines: Center(i) is called with
\* one argument
RECURSIVE CentersLoop(_, _, _)
CentersLoop(config, i, st) ==
    IF i >= config.num_centers THEN st
    ELSE LET center == CenterInit(<<i>>)
         IN  IF center.raised # "" THEN [st EXCEPT !.raised = center.raised]
             ELSE CentersLoop(config, i + 1,
                    MachinesLoop(config, i, 0,
                        [st EXCEPT !.centers = Append(@, center)]))

_create_centers_machines(config, machine_rand) ==
    CentersLoop(config, 0,
        [raised |-> "", centers |-> <<>>, machine_rand |-> machine_rand])

\* a constructor call that ended: what it raised ("" when it returned) and
\* the attributes the object had at that point
Ended(i, raised) ==
    [seed |-> i.seed, raised |-> raised, name |-> i.name, config |-> i.config,
     job_rand |-> i.job_rand, machine_rand |-> i.machine_rand,
     centers |-> i.centers, jobs |-> i.jobs]

\* line 28: str(instance_environment).replace("|", "-").replace(",", "-")
InstanceName(e) ==
    Concat(replace(replace(InstanceEnvironment__str__Pieces(e), "|", "-"), ",", "-"))

\* __str__, line 34
Instance__str__(i) == i.name \o "_s" \o ToString(i.seed)

\* __init__ lines 24-30 and _create_instance lines 188-198: the object when
\* _create_centers_machines is called
InstanceInit(e, seed) ==
    LET cfg == InstanceConfig(e, DefaultTunables)
    IN  [pc |-> "_create_centers_machines", seed |-> seed, config |-> cfg,
         name |-> InstanceName(e), jobs |-> <<>>, centers |-> <<>>,
         job_rand |-> Random(IntAdd(cfg.job_seed, seed)),
         machine_rand |-> Random(IntAdd(cfg.machine_seed, seed))]

\* what the object is when InstanceConfig raises (line 26)
ConfigRaised(i) ==
    [i EXCEPT !.name = "",
              !.job_rand = Random([hi |-> 0, lo |-> 0]),
              !.machine_rand = Random([hi |-> 0, lo |-> 0])]

\* _create_instance lines 204-205: _create_centers_machines, then
\* _create_jobs, whose JobInitializer and OperationInitializer (lines 83,
\* 144) are names no module defines
AfterInit(i) ==
    LET st == _create_centers_machines(i.config, i.machine_rand)
        i2 == [i EXCEPT !.centers = st.centers, !.machine_rand = st.machine_rand]
    IN  IF st.raised # "" THEN Ended(i2, st.raised) ELSE Ended(i2, "NameError")

\* Instance(instance_environment, seed): the whole constructor call
Instance(e, seed) ==
    LET i == InstanceInit(e, seed)
    IN  IF i.config.raised # Ok THEN Ended(ConfigRaised(i), i.config.raised)
        ELSE AfterInit(i)

\* __init__ lines 24-31 and _create_instance lines 188-198
NewInstance(seed) ==
    /\ env.status = "accepted"
    /\ inst.pc = "none"
    /\ Len(runs) < MaxRuns
    /\ LET i == InstanceInit(env, seed)
       IN  IF i.config.raised # Ok
           THEN /\ runs' = Append(runs, Ended(ConfigRaised(i), i.config.raised))
                /\ inst' = NoInst
           ELSE /\ inst' = i
                /\ runs' = runs
    /\ UNCHANGED <<env, loader, conf, job, mach, op>>

\* _create_instance lines 204-205, which end the call
CreateCentersMachines ==
    /\ inst.pc = "_create_centers_machines"
    /\ runs' = Append(runs, AfterInit(inst))
    /\ inst' = NoInst
    /\ UNCHANGED <<env, loader, conf, job, mach, op>>

(***************************************************************************)
(* dataloader.py: DataLoader(instance_environment, num_instances).  The    *)
(* dict _instances has the one key set_name; its list is kept in           *)
(* instances.  _instances_by_name is a function from names to instances.   *)
(***************************************************************************)
\* the loop of _create_instances, lines 40-42
RECURSIVE CreateInstancesLoop(_, _, _)
CreateInstancesLoop(e, i, st) ==
    IF i >= st.number_of_instances THEN st
    ELSE LET instance == Instance(e, i)
         IN  IF instance.raised # "" THEN [st EXCEPT !.raised = instance.raised]
             ELSE CreateInstancesLoop(e, i + 1,
                    [st EXCEPT !.instances = Append(@, instance)])

\* lines 38-42
_create_instances(e, st) ==
    CreateInstancesLoop(e, 0,
        [st EXCEPT !.set_name = InstanceEnvironment__str__(e), !.instances = <<>>])

\* __init__, lines 29-34
DataLoader(e, num_instances) ==
    _create_instances(e,
        [raised |-> "", number_of_instances |-> num_instances, set_name |-> "",
         instances |-> <<>>, instances_by_name |-> <<>>])

\* lines 50-53
get_instances(l) == l.instances

\* line 57: self._instances_by_name.get(dataset_name, None)
get_dataset_by_name(l, dataset_name) ==
    IF dataset_name \in DOMAIN l.instances_by_name
    THEN l.instances_by_name[dataset_name]
    ELSE None

\* __len__, line 61
DataLoader__len__(l) == Len(l.instances)

NewDataLoader(n) ==
    /\ env.status = "accepted"
    /\ loader.status = "none"
    /\ inst.pc = "none"
    /\ runs = <<>>
    /\ loader' = [status |-> "constructed", l |-> DataLoader(env, n)]
    /\ UNCHANGED <<env, inst, runs, conf, job, mach, op>>

\* the environments instances are generated from
GenArgs ==
    UNION {{Args(al, TRUE, be, ga, sz[1], sz[2], sz[3]) :
                be \in ListsOver(BetaSection, 1)
                       \cup {<<RELEASE_TIMES, DUE_DATES>>, <<DUE_DATES, DEADLINES>>,
                             <<PRECEDENCE, RELEASE_TIMES>>,
                             <<SEQUENCE_DEPENDENT_SETUP, BREAKDOWNS>>},
                ga \in GammaSection,
                sz \in CoherentSizes(al)} : al \in AlphaSection}

GenInit ==
    /\ env \in {e \in {InstanceEnvironment(a) : a \in GenArgs} :
                    e.status = "accepted"}
    /\ inst = NoInst
    /\ runs = <<>>
    /\ loader = NoLoader
    /\ conf = NoConfig
    /\ job = NoJob
    /\ mach = NoMachine
    /\ op = NoOperation

GenNext ==
    \/ \E seed \in 0..MaxIndex : NewInstance(seed)
    \/ CreateCentersMachines
    \/ \E n \in 0..MaxInstances : NewDataLoader(n)

GenSpec == GenInit /\ [][GenNext]_vars

(***************************************************************************)
(* operation.py and job.py: the constructors.  An Optional argument is     *)
(* None or Some(value).                                                    *)
(***************************************************************************)
Some(x) == [t |-> "some", name |-> "", v |-> x]

\* Operation.__init__, lines 18-27
Operation(op_job, machine, processing_time, eligible_machines, processing_times) ==
    [name |-> "", job |-> op_job, machine |-> machine,
     processing_time |-> processing_time,
     eligible_machines |-> eligible_machines,
     processing_times |-> processing_times,
     preemption |-> FALSE, is_initialized |-> FALSE]

\* Job._validate_sequence, lines 42-46: what it raises, "" when it returns
_validate_sequence(j) ==
    IF j.sequence.t # "none" /\ Len(j.sequence.v) # Len(j.operations)
    THEN "ValueError"
    ELSE ""

\* sum(op.processing_time for op in ops if op.processing_time is not None)
RECURSIVE SumProcessingTimes(_)
SumProcessingTimes(ops) ==
    IF ops = <<>> THEN 0
    ELSE (IF Head(ops).processing_time.t # "none" THEN Head(ops).processing_time.v ELSE 0)
         + SumProcessingTimes(Tail(ops))

\* Job.total_processing_time, lines 30-34
total_processing_time(j) == SumProcessingTimes(j.operations)

\* Job.__init__, lines 15-28
Job(id, operations, sequence, release_time, due_date, deadline, predecessors) ==
    LET j == [id |-> id, name |-> "J" \o ToString(id), operations |-> operations,
              sequence |-> sequence, release_time |-> release_time,
              due_date |-> due_date, deadline |-> deadline,
              predecessors |-> IF predecessors.t # "none" THEN predecessors.v ELSE <<>>,
              no_wait |-> FALSE]
    IN  [raised |-> _validate_sequence(j), attrs |-> j]

(***************************************************************************)
(* machine.py.  A Machine or a Job held by another object is held by       *)
(* reference: MachineRef is the identity of a machine (the center it was   *)
(* created for and its id), JobRef that of a job.                          *)
(***************************************************************************)
MachineRef(center, id) == [center |-> center, id |-> id]

JobRef(id) == [id |-> id]

\* Machine.__init__, lines 18-26; center is the id of the Center
Machine(id, center, processing_speed, setup_times, breakdowns) ==
    [id |-> id, name |-> "C" \o ToString(center) \o "M" \o ToString(id),
     center |-> center, processing_speed |-> processing_speed, schedule |-> <<>>,
     setup_times |-> setup_times, breakdowns |-> breakdowns]

\* Machine.add_operation, lines 28-33: what it raises and the machine after
add_operation(m, operation) ==
    IF operation.machine.t # "none" /\ operation.machine.v.id # m.id
    THEN [raised |-> "ValueError", m |-> m]
    ELSE [raised |-> "", m |-> [m EXCEPT !.schedule = Append(@, operation)]]

\* initialize_operation without the test of _is_initialized
initialize_operation_Rebind(o, init_job, machine) ==
    [o EXCEPT !.job = Some(init_job),
              !.machine = machine,
              !.name = IF machine.t # "none"
                       THEN "O(J" \o ToString(init_job.id) \o "M"
                            \o ToString(machine.v.id) \o ")"
                       ELSE "O(J" \o ToString(init_job.id) \o ")",
              !.is_initialized = TRUE]

\* Operation.initialize_operation, operation.py lines 29-34: the operation
\* after the call
initialize_operation(o, init_job, machine) ==
    IF ~o.is_initialized
    THEN [o EXCEPT !.job = Some(init_job),
                   !.machine = machine,
                   !.name = IF machine.t # "none"
                            THEN "O(J" \o ToString(init_job.id) \o "M"
                                 \o ToString(machine.v.id) \o ")"
                            ELSE "O(J" \o ToString(init_job.id) \o ")",
                   !.is_initialized = TRUE]
    ELSE o

(***************************************************************************)
(* The constructors of Job and InstanceConfig and the methods of Machine   *)
(* and Operation called directly.                                          *)
(***************************************************************************)
\* the machines an operation may be bound to: two ids in two centers
Machines == {MachineRef(center, id) : center \in 0..1, id \in 0..1}

NewMachine ==
    /\ job.status = "none"
    /\ conf.status = "none"
    /\ mach.status = "none"
    /\ op.status = "none"
    /\ \E ref \in Machines :
        mach' = [status |-> "constructed",
                 m |-> Machine(ref.id, ref.center, 10, None, None),
                 calls |-> 0]
    /\ UNCHANGED <<env, inst, runs, loader, conf, job, op>>

\* machine.add_operation(operation), for an operation that is unbound or
\* bound to any machine
AddOperation ==
    /\ mach.status = "constructed"
    /\ Len(mach.m.schedule) < MaxSchedule
    /\ mach.calls < MaxCalls
    /\ \E bound \in {None} \cup {Some(ref) : ref \in Machines},
          processing_time \in {Some(1), Some(2)} :
        LET operation == Operation(None, bound, processing_time, None, None)
            res == add_operation(mach.m, operation)
        IN  mach' = [status |-> "constructed", m |-> res.m,
                     calls |-> mach.calls + 1,
                     operation |-> operation, raised |-> res.raised]
    /\ UNCHANGED <<env, inst, runs, loader, conf, job, op>>

NewOperation ==
    /\ job.status = "none"
    /\ conf.status = "none"
    /\ mach.status = "none"
    /\ op.status = "none"
    /\ \E given_job \in {None, Some(JobRef(0))},
          machine \in {None} \cup {Some(ref) : ref \in Machines} :
        op' = [status |-> "constructed",
               o |-> Operation(given_job, machine, None, None, None),
               calls |-> 0]
    /\ UNCHANGED <<env, inst, runs, loader, conf, job, mach>>

\* operation.initialize_operation(job, machine)
InitializeOperation ==
    /\ op.status = "constructed"
    /\ op.calls < MaxCalls
    /\ \E id \in 0..1, machine \in {None} \cup {Some(ref) : ref \in Machines} :
        op' = [status |-> "constructed",
               o |-> initialize_operation(op.o, JobRef(id), machine),
               calls |-> op.calls + 1,
               job |-> JobRef(id), machine |-> machine]
    /\ UNCHANGED <<env, inst, runs, loader, conf, job, mach>>

\* a job of 0..MaxOps operations with no sequence or a list of ints
NewJob ==
    /\ job.status = "none"
    /\ conf.status = "none"
    /\ mach.status = "none"
    /\ op.status = "none"
    /\ \E id \in 0..1, nops \in 0..MaxOps,
          sequence \in {None} \cup {Some(l) : l \in ListsOver(0..MaxOps, MaxOps)} :
        job' = [status |-> "constructed",
                j |-> Job(id,
                          [k \in 1..nops |-> Operation(None, None, None, None, None)],
                          sequence, None, None, None, None)]
    /\ UNCHANGED <<env, inst, runs, loader, conf, mach, op>>

\* the tunable ranges InstanceConfig is given: the defaults, ranges at the
\* edges of the assertions and ranges beyond them; speeds in tenths
ProcessTimes == {<<2, 20>>, <<1, 1>>, <<0, 5>>, <<5, 2>>, <<0 - 1, 3>>}

MachineSpeeds == {<<9, 11>>, <<9, 20>>, <<9, 21>>, <<0, 11>>, <<11, 9>>}

EligibleMachines ==
    {[min |-> 1, max_given |-> FALSE, max |-> 0]}
    \cup {[min |-> lo, max_given |-> TRUE, max |-> hi] :
            lo \in (0 - 1)..2, hi \in 0..2}
    \cup {[min |-> lo, max_given |-> FALSE, max |-> 0] : lo \in (0 - 1)..2}

DueDatePenalties == {<<1, 5>>, <<1, 1>>, <<0, 5>>, <<5, 1>>, <<0 - 1, 1>>}

Predecessors == {<<0, 2>>, <<0, 0>>, <<0 - 1, 2>>, <<2, 0>>, <<1, 1>>}

NewInstanceConfig ==
    /\ job.status = "none"
    /\ conf.status = "none"
    /\ mach.status = "none"
    /\ op.status = "none"
    /\ \E pt \in ProcessTimes, ms \in MachineSpeeds, em \in EligibleMachines,
          ddp \in DueDatePenalties, pre \in Predecessors :
        conf' = [status |-> "constructed",
                   c |-> InstanceConfig(env,
                            [process_time |-> pt, machine_speed |-> ms,
                             eligible_machines |-> em, due_date_penalty |-> ddp,
                             predecessors |-> pre])]
    /\ UNCHANGED <<env, inst, runs, loader, job, mach, op>>

\* the environments the configurations are derived from
UnitArgs ==
    {Args(SINGLE_MACHINE, TRUE, <<>>, MAKESPAN, 2, 1, 1),
     Args(JOBSHOP, TRUE, <<PRECEDENCE, DUE_DATES>>, MAKESPAN, 2, 2, 1)}

UnitInit ==
    /\ env \in {InstanceEnvironment(a) : a \in UnitArgs}
    /\ env.status = "accepted"
    /\ inst = NoInst
    /\ runs = <<>>
    /\ loader = NoLoader
    /\ conf = NoConfig
    /\ job = NoJob
    /\ mach = NoMachine
    /\ op = NoOperation

UnitNext ==
    \/ NewJob
    \/ NewInstanceConfig
    \/ NewMachine
    \/ AddOperation
    \/ NewOperation
    \/ InitializeOperation

UnitSpec == UnitInit /\ [][UnitNext]_vars

(***************************************************************************)
(* Properties of the generator (GenSpec).                                  *)
(***************************************************************************)
EndedRuns == {runs[k] : k \in 1..Len(runs)}

\* the run built a complete instance: it returned, with num_centers centers
\* of num_machines machines and num_jobs jobs of num_operations operations
CompleteInstance(r) ==
    /\ r.raised = ""
    /\ Len(r.centers) = env.num_centers
    /\ \A c \in 1..Len(r.centers) : Len(r.centers[c].machines) = env.num_machines
    /\ Len(r.jobs) = env.num_jobs
    /\ \A j \in 1..Len(r.jobs) : Len(r.jobs[j].operations) = env.num_operations

\* C1: generating an instance from an accepted environment, for any index
\* >= 0, ends without raising and yields num_centers centers of num_machines
\* machines and num_jobs jobs of num_operations operations each, where
\* num_operations is num_machines for flow/job/open shop and 1 otherwise.
C1_GenerationSucceeds ==
    /\ env.num_operations =
          (IF env.alpha \in {FLOWSHOP, JOBSHOP, OPENSHOP}
           THEN env.num_machines ELSE 1)
    /\ \A r \in EndedRuns : CompleteInstance(r)

\* C2: two runs of the generator for the same environment and the same
\* instance index both produce an instance, and the two instances have the
\* same centers and machines and the same jobs and operations.
C2_SameInstanceTwice ==
    \A k1 \in 1..Len(runs), k2 \in 1..Len(runs) :
        (k1 # k2 /\ runs[k1].seed = runs[k2].seed)
        => /\ CompleteInstance(runs[k1])
           /\ CompleteInstance(runs[k2])
           /\ runs[k1].centers = runs[k2].centers
           /\ runs[k1].jobs = runs[k2].jobs

\* C3: each call opens a job stream seeded job_seed + index and a machine
\* stream seeded machine_seed + index, and makes all its job decisions (one
\* set per job) from the first and its machine decisions from the second.
C3_TwoStreams ==
    \A r \in EndedRuns :
        /\ r.job_rand.seed = IntAdd(env.job_seed, r.seed)
        /\ r.machine_rand.seed = IntAdd(env.machine_seed, r.seed)
        /\ r.raised = ""
        /\ Len(r.jobs) = env.num_jobs

(***************************************************************************)
(* Properties of the validator (Spec).                                     *)
(***************************************************************************)
Constructed == env.status # "none"

SizingErrors == {"num_jobs", "num_machines", "num_centers", "machines_gt_jobs"}

ValuesAt(beta) == {<<beta[i].v, beta[j].v>> : i \in 1..Len(beta), j \in 1..Len(beta)}

\* beta holds "no constraints" and another symbol
NoConstraintsMixed(beta) ==
    \E i \in 1..Len(beta), j \in 1..Len(beta) :
        beta[i] = NO_CONSTRAINTS /\ beta[j] # NO_CONSTRAINTS

\* beta holds both members of a pair of the beta-conflict table
HoldsConflictingPair(beta) == ValuesAt(beta) \cap _CONFLICTING_BETA_PAIRS # {}

\* beta holds a symbol that the alpha-beta table forbids for alpha
HoldsForbidden(alpha, beta) ==
    \E i \in 1..Len(beta) : <<alpha.v, beta[i].v>> \in _CONFLICTING_ALPHA_BETA_PAIRS

\* gamma is time-window-relative and beta has neither due dates nor deadlines
LacksDueOrDeadline(beta, gamma) ==
    /\ gamma.v \in _TIME_GAMMA_FIELDS
    /\ \A i \in 1..Len(beta) : beta[i] \notin {DUE_DATES, DEADLINES}

Flexible == AlphaSection \ {SINGLE_MACHINE, PARALLEL_IDENTICAL, PARALLEL_DIFFERENT,
                            PARALLEL_UNRELATED, FLOWSHOP, JOBSHOP, OPENSHOP}

Reverse(seq) == [i \in 1..Len(seq) |-> seq[Len(seq) + 1 - i]]

\* the arguments of the legal subset of C4
LegalSubset(a) ==
    /\ a.alpha \in {SINGLE_MACHINE, PARALLEL_IDENTICAL, FLOWSHOP, JOBSHOP}
    /\ Len(BetaOf(a)) <= 2
    /\ \A i \in 1..Len(BetaOf(a)) : BetaOf(a)[i] \in BetaSection
    /\ ~NoConstraintsMixed(BetaOf(a))
    /\ ~HoldsConflictingPair(BetaOf(a))
    /\ ~HoldsForbidden(a.alpha, BetaOf(a))
    /\ a.gamma \in GammaSection
    /\ ~LacksDueOrDeadline(BetaOf(a), a.gamma)
    /\ a.num_jobs >= 1 /\ a.num_machines >= 1 /\ a.num_machines <= a.num_jobs
    /\ a.num_centers = 1
    /\ (a.alpha = SINGLE_MACHINE) <=> (a.num_machines = 1)

\* the beta-derived flags are true exactly for the symbols present
FlagsMatchBeta(e) ==
    LET Has(f) == \E i \in 1..Len(e.beta) : e.beta[i] = f
    IN  /\ e.beta_setup.is_release <=> Has(RELEASE_TIMES)
        /\ e.beta_setup.is_due <=> Has(DUE_DATES)
        /\ e.beta_setup.is_deadline <=> Has(DEADLINES)
        /\ e.beta_setup.is_precedence <=> Has(PRECEDENCE)
        /\ e.beta_setup.is_setuptime <=> Has(SETUP_TIMES)
        /\ e.beta_setup.is_setuptime_seq <=> Has(SEQUENCE_DEPENDENT_SETUP)
        /\ e.beta_setup.is_breakdown <=> Has(BREAKDOWNS)
        /\ e.beta_setup.is_eligible
             <=> (Has(MACHINE_ELIGIBILITY) \/ Has(MACHINE_CENTER_ELIGIBILITY))

\* C4: for alpha among single machine, parallel identical, flow shop and job
\* shop, a beta list of at most two beta symbols with no conflicting pair and
\* no symbol forbidden for alpha, a gamma of the gamma vocabulary whose
\* due/deadline requirement is met, and coherent sizes, validation succeeds
\* and the beta-derived flags are true exactly for the symbols present.
C4_LegalSubsetAccepted ==
    (Constructed /\ LegalSubset(env.args))
    => (env.status = "accepted" /\ FlagsMatchBeta(env))

\* the rule a reported error belongs to
RuleOf(e) ==
    IF e \in SizingErrors THEN "sizing"
    ELSE IF e = "alpha_invalid" THEN "alpha_membership"
    ELSE IF e \in {"single_machine_count", "one_machine_alpha"} THEN "machine_count"
    ELSE IF e \in {"center_alpha_count", "plain_alpha_count"} THEN "center_count"
    ELSE IF e = "beta_invalid" THEN "beta_membership"
    ELSE IF e \in {"gamma_none", "gamma_invalid"} THEN "gamma_membership"
    ELSE IF e \in {"no_constraints_combined", "beta_conflict"} THEN "beta_consistency"
    ELSE IF e = "alpha_beta_conflict" THEN "alpha_beta"
    ELSE IF e = "gamma_beta_dependency" THEN "gamma_beta"
    ELSE "none"

\* the arguments break the rule, whatever the other rules say
Breaks(rule, a) ==
    CASE rule = "sizing" ->
            a.num_jobs < 1 \/ a.num_machines < 1 \/ a.num_centers < 1
            \/ a.num_machines > a.num_jobs
      [] rule = "alpha_membership" -> a.alpha \notin alpha_fields
      [] rule = "machine_count" -> (a.alpha = SINGLE_MACHINE) # (a.num_machines = 1)
      [] rule = "center_count" ->
            \/ a.alpha \in _CENTER_ALPHA_FIELDS /\ a.num_centers # 1
            \/ a.alpha \notin _CENTER_ALPHA_FIELDS /\ a.num_centers > 1
      [] rule = "beta_membership" ->
            \E i \in 1..Len(BetaOf(a)) : BetaOf(a)[i] \notin beta_fields
      [] rule = "gamma_membership" -> a.gamma \notin gamma_fields
      [] rule = "beta_consistency" ->
            NoConstraintsMixed(BetaOf(a)) \/ HoldsConflictingPair(BetaOf(a))
      [] rule = "alpha_beta" -> HoldsForbidden(a.alpha, BetaOf(a))
      [] rule = "gamma_beta" -> LacksDueOrDeadline(BetaOf(a), a.gamma)

\* the first rule of the order that the arguments break, "none" if none
FirstBroken(order, a) ==
    IF \E i \in 1..Len(order) : Breaks(order[i], a)
    THEN order[CHOOSE i \in 1..Len(order) :
                  Breaks(order[i], a) /\ \A k \in 1..(i - 1) : ~Breaks(order[k], a)]
    ELSE "none"

ClaimedOrder ==
    <<"sizing", "alpha_membership", "machine_count", "center_count",
      "beta_membership", "gamma_membership", "beta_consistency", "alpha_beta",
      "gamma_beta">>

CodeOrder ==
    <<"sizing", "alpha_membership", "machine_count", "center_count",
      "beta_membership", "alpha_beta", "beta_consistency", "gamma_membership",
      "gamma_beta">>

C6_SizingFirst ==
    Constructed
    => ((env.args.num_jobs < 1 \/ env.args.num_machines < 1
         \/ env.args.num_centers < 1
         \/ env.args.num_machines > env.args.num_jobs)
        <=> (env.status = "rejected" /\ env.error \in SizingErrors))

\* more machines than jobs, with an alpha, a beta and a gamma that are invalid
C6_Witness ==
    /\ env.status = "rejected"
    /\ env.error = "machines_gt_jobs"
    /\ env.args.alpha \notin AlphaSection
    /\ env.args.gamma \notin GammaSection
    /\ env.args.beta = <<JOBSHOP>>

\* the other rules, as the spec states them, hold of the arguments
OtherRulesHold(a) ==
    /\ a.num_jobs >= 1 /\ a.num_machines >= 1 /\ a.num_centers >= 1
    /\ a.num_machines <= a.num_jobs
    /\ a.alpha \in AlphaSection
    /\ (a.alpha = SINGLE_MACHINE) <=> (a.num_machines = 1)
    /\ \A i \in 1..Len(BetaOf(a)) : BetaOf(a)[i] \in BetaSection
    /\ a.gamma \in GammaSection
    /\ ~NoConstraintsMixed(BetaOf(a))
    /\ ~HoldsConflictingPair(BetaOf(a))
    /\ ~HoldsForbidden(a.alpha, BetaOf(a))
    /\ ~LacksDueOrDeadline(BetaOf(a), a.gamma)

\* C7: an accepted environment has a flexible alpha if and only if it has
\* more than one center, and a flexible alpha with more than one center is
\* accepted whenever the other rules hold.
C7_CenterBiconditional ==
    /\ env.status = "accepted"
       => ((env.alpha \in Flexible) <=> (env.num_centers > 1))
    /\ (Constructed /\ env.args.alpha \in Flexible /\ env.args.num_centers > 1
        /\ OtherRulesHold(env.args))
       => env.status = "accepted"

\* C8: no alpha symbol is reported as an invalid alpha, no list of beta
\* symbols as invalid beta fields, no objective as an invalid gamma; a symbol
\* of another category is reported as invalid when the check is reached.
C8_MembershipExact ==
    Constructed
    => LET a == env.args
       IN  /\ a.alpha \in AlphaSection => env.error # "alpha_invalid"
           /\ (\A i \in 1..Len(BetaOf(a)) : BetaOf(a)[i] \in BetaSection)
              => env.error # "beta_invalid"
           /\ a.gamma \in GammaSection => env.error # "gamma_invalid"
           /\ a.alpha \notin AlphaSection => env.status = "rejected"
           /\ (\E i \in 1..Len(BetaOf(a)) : BetaOf(a)[i] \notin BetaSection)
              => env.status = "rejected"
           /\ a.gamma \notin GammaSection => env.status = "rejected"

\* C9: single-machine alpha with num_machines # 1 is rejected, every other
\* alpha with num_machines = 1 is rejected, with the machine-count error when
\* sizing and alpha membership pass; an accepted environment has alpha =
\* single machine if and only if num_machines = 1.
C9_MachineCountBiconditional ==
    Constructed
    => LET a == env.args
       IN  /\ (a.alpha = SINGLE_MACHINE) # (a.num_machines = 1)
              => env.status = "rejected"
           /\ env.status = "accepted"
              => ((env.alpha = SINGLE_MACHINE) <=> (env.num_machines = 1))
           /\ (RuleOf(env.error) = "machine_count")
              <=> (/\ (a.alpha = SINGLE_MACHINE) # (a.num_machines = 1)
                   /\ ~Breaks("sizing", a)
                   /\ a.alpha \in alpha_fields)

\* a valid alpha other than single machine, with one machine
C9_Witness ==
    /\ env.status = "rejected"
    /\ env.error = "one_machine_alpha"
    /\ env.args.alpha = JOBSHOP
    /\ env.args.num_machines = 1

\* C10: a beta list holding "no constraints" with another symbol, or both
\* members of a pair of the beta-conflict table in either order, is rejected,
\* by the beta-combination check when the checks before it pass; a beta list
\* with neither defect passes that check; the check does not depend on the
\* order of the list.
C10_BetaCombinations ==
    Constructed
    => LET a == env.args
           beta == BetaOf(a)
           defect == NoConstraintsMixed(beta) \/ HoldsConflictingPair(beta)
       IN  /\ defect => env.status = "rejected"
           /\ (_validate_beta_combinations(a) # Ok) <=> defect
           /\ _validate_beta_combinations([a EXCEPT !.beta = Reverse(beta)])
                = _validate_beta_combinations(a)
           /\ env.error \in {"no_constraints_combined", "beta_conflict"} => defect

\* preemption before no-wait, the reverse of the table's pair, in a job shop
C10_Witness ==
    /\ env.status = "rejected"
    /\ env.error = "beta_conflict"
    /\ env.args.alpha = JOBSHOP
    /\ env.args.beta = <<PREEMPTION, NO_WAIT>>

\* every check of the constructor other than the alpha-beta table passes
OtherChecksPass(a) ==
    /\ SizingError(a) = Ok
    /\ _validate_alpha_field(a) = Ok
    /\ _validate_beta_field(a) = Ok
    /\ _validate_beta_combinations(a) = Ok
    /\ _validate_gamma_field(a) = Ok
    /\ _validate_gamma_beta_dependencies(a) = Ok

\* C11: an input that holds a beta symbol forming with alpha a pair of the
\* forbidden alpha-beta table is rejected; among the inputs that pass every
\* other check, an input is rejected if and only if it holds such a symbol;
\* the alpha-beta error is reported only for such an input; no accepted
\* environment holds a forbidden (alpha, beta) pair.
C11_AlphaBetaTable ==
    Constructed
    => LET a == env.args
           forbidden == HoldsForbidden(a.alpha, BetaOf(a))
       IN  /\ forbidden => env.status = "rejected"
           /\ OtherChecksPass(a) => ((env.status = "rejected") <=> forbidden)
           /\ env.error = "alpha_beta_conflict" => forbidden
           /\ env.status = "accepted" => ~HoldsForbidden(env.alpha, env.beta)

\* a job shop with due dates and then blocking: the forbidden symbol is the
\* second of the list, and every other check passes
C11_Witness ==
    /\ env.status = "rejected"
    /\ env.error = "alpha_beta_conflict"
    /\ env.args.alpha = JOBSHOP
    /\ env.args.beta = <<DUE_DATES, BLOCK>>
    /\ OtherChecksPass(env.args)

\* the objectives the claim calls time-window-relative
TimeWindowRelative ==
    {MAX_LATENESS, EARLYNESS, WEIGHTED_EARLYNESS, TOTAL_TARDINESS,
     WEIGHTED_TARDINESS, NUMBER_LATE_JOBS, WEIGHTED_LATE_JOBS, TOTAL_ABS_DEVIATION}

HasDueOrDeadline(beta) == \E i \in 1..Len(beta) : beta[i] \in {DUE_DATES, DEADLINES}

\* C12: an accepted environment whose gamma is time-window-relative has due
\* dates or deadlines in its beta; an input with such a gamma and neither
\* symbol in beta (beta empty or omitted included) is rejected.
C12_GammaNeedsDueOrDeadline ==
    Constructed
    => LET a == env.args
       IN  /\ (env.status = "accepted" /\ env.gamma \in TimeWindowRelative)
              => HasDueOrDeadline(env.beta)
           /\ (a.gamma \in TimeWindowRelative /\ ~HasDueOrDeadline(BetaOf(a)))
              => env.status = "rejected"

\* max lateness on a single machine with beta omitted: every earlier check
\* passes and the gamma-beta check rejects
C12_Witness ==
    /\ env.status = "rejected"
    /\ env.error = "gamma_beta_dependency"
    /\ env.args.gamma = MAX_LATENESS
    /\ ~env.args.beta_given
    /\ env.args.alpha = SINGLE_MACHINE

\* C13: in an accepted environment is_flowshop / is_jobshop / is_openshop is
\* true exactly when alpha is of the flow / job / open shop family (plain or
\* flexible), is_identical / is_different / is_unrelated exactly when alpha
\* is the parallel or flexible variant with that speed model, and is_weighted
\* exactly when gamma is a weighted objective.
C13_AlphaGammaFlags ==
    env.status = "accepted"
    => /\ env.alpha_setup.is_flowshop
            <=> env.alpha \in {FLOWSHOP, FLEXIBLE_FLOWSHOP_IDENTICAL,
                               FLEXIBLE_FLOWSHOP_DIFFERENT, FLEXIBLE_FLOWSHOP_UNRELATED}
       /\ env.alpha_setup.is_jobshop
            <=> env.alpha \in {JOBSHOP, FLEXIBLE_JOBSHOP_IDENTICAL,
                               FLEXIBLE_JOBSHOP_DIFFERENT, FLEXIBLE_JOBSHOP_UNRELATED}
       /\ env.alpha_setup.is_openshop
            <=> env.alpha \in {OPENSHOP, FLEXIBLE_OPENSHOP_IDENTICAL,
                               FLEXIBLE_OPENSHOP_DIFFERENT, FLEXIBLE_OPENSHOP_UNRELATED}
       /\ env.alpha_setup.is_identical
            <=> env.alpha \in {PARALLEL_IDENTICAL, FLEXIBLE_FLOWSHOP_IDENTICAL,
                               FLEXIBLE_JOBSHOP_IDENTICAL, FLEXIBLE_OPENSHOP_IDENTICAL}
       /\ env.alpha_setup.is_different
            <=> env.alpha \in {PARALLEL_DIFFERENT, FLEXIBLE_FLOWSHOP_DIFFERENT,
                               FLEXIBLE_JOBSHOP_DIFFERENT, FLEXIBLE_OPENSHOP_DIFFERENT}
       /\ env.alpha_setup.is_unrelated
            <=> env.alpha \in {PARALLEL_UNRELATED, FLEXIBLE_FLOWSHOP_UNRELATED,
                               FLEXIBLE_JOBSHOP_UNRELATED, FLEXIBLE_OPENSHOP_UNRELATED}
       /\ env.gamma_setup.is_weighted
            <=> env.gamma \in {TOTAL_WEIGHTED_COMPLETION, WEIGHTED_EARLYNESS,
                               WEIGHTED_TARDINESS, WEIGHTED_LATE_JOBS}

\* the symbols of a beta list, as a set
SymbolsOf(beta) == {beta[i] : i \in 1..Len(beta)}

\* seq1 and seq2 hold the same elements the same number of times
SameElements(seq1, seq2) ==
    /\ Len(seq1) = Len(seq2)
    /\ \A i \in 1..Len(seq1) :
          Cardinality({k \in 1..Len(seq1) : seq1[k] = seq1[i]})
            = Cardinality({k \in 1..Len(seq2) : seq2[k] = seq1[i]})

InSeedRange(seed) == seed.hi \in 0..(TwoPow16 - 1) /\ seed.lo \in 0..(TwoPow16 - 1)

\* C14: both seeds of an accepted environment lie in [0, 2^32); an accepted
\* environment with the same alpha, gamma and sizes and the same set of beta
\* symbols, however listed, has the same job seed and the same machine seed;
\* the two seeds hash two different orderings of the same attributes.
C14_SeedsCanonical ==
    env.status = "accepted"
    => /\ InSeedRange(env.job_seed) /\ InSeedRange(env.machine_seed)
       /\ \A beta2 \in ListsOver(SymbolsOf(env.beta), MaxBetaLen) :
             LET other == InstanceEnvironment([env.args EXCEPT !.beta = beta2])
             IN  (other.status = "accepted" /\ SymbolsOf(beta2) = SymbolsOf(env.beta))
                 => /\ other.job_seed = env.job_seed
                    /\ other.machine_seed = env.machine_seed
       /\ CombinedTokens(env.args, TRUE) # CombinedTokens(env.args, FALSE)
       /\ SameElements(CombinedTokens(env.args, TRUE), CombinedTokens(env.args, FALSE))

(***************************************************************************)
(* Properties of the names and of the catalog (GenSpec).                   *)
(***************************************************************************)
\* C15: the name of an instance is the canonical string of its environment
\* with every "|" and "," replaced by "-", followed by _s and the seed; two
\* instances of the environment with different seeds have different names,
\* and two with the same seed have the same name.
C15_InstanceName ==
    /\ \A r \in EndedRuns : r.name = InstanceName(env) \o "_s" \o ToString(r.seed)
    /\ \A r1 \in EndedRuns, r2 \in EndedRuns :
          /\ r1.seed # r2.seed => r1.name # r2.name
          /\ r1.seed = r2.seed => r1.name = r2.name

\* C16: a catalog built from an environment and a count N is built, holds
\* exactly N instances, those of the seeds 0..N-1 in that order; looking up
\* the name of any of them returns it, and looking up a name of no instance
\* returns None.
C16_Catalog ==
    loader.status = "constructed"
    => LET l == loader.l
           all == get_instances(l)
       IN  /\ l.raised = ""
           /\ Len(all) = l.number_of_instances
           /\ DataLoader__len__(l) = l.number_of_instances
           /\ \A k \in 1..Len(all) :
                 /\ all[k].seed = k - 1
                 /\ all[k].raised = ""
                 /\ get_dataset_by_name(l, all[k].name) = all[k]
           /\ get_dataset_by_name(l, "no instance") = None

(***************************************************************************)
(* Properties of the jobs.                                                 *)
(***************************************************************************)
\* seq is a permutation of 0..(n - 1)
IsPermutation(seq, n) ==
    /\ Len(seq) = n
    /\ \A v \in 0..(n - 1) : \E k \in 1..Len(seq) : seq[k] = v

\* C17: a Job constructed with a sequence is built if and only if the
\* sequence has as many entries as the job has operations and is a
\* permutation of 0..(number of operations - 1); otherwise the constructor
\* raises.
C17_JobSequence ==
    (job.status = "constructed" /\ job.j.attrs.sequence.t # "none")
    => ((job.j.raised = "")
        <=> IsPermutation(job.j.attrs.sequence.v, Len(job.j.attrs.operations)))

\* the run returned with the jobs of the environment
GeneratedJobs(r) == r.raised = "" /\ Len(r.jobs) = env.num_jobs

\* release_time or 0
ReleaseOrZero(j) == IF j.release_time.t # "none" THEN j.release_time.v ELSE 0

\* C18: generation yields the jobs, and for every job and each predecessor P
\* of it, P was created before the job and release time of P + total
\* processing time of P <= release time of the job, unless the job has no
\* release time.
C18_PrecedenceOrder ==
    \A r \in EndedRuns :
        /\ GeneratedJobs(r)
        /\ \A k \in 1..Len(r.jobs) :
              \A q \in 1..Len(r.jobs[k].predecessors) :
                 LET P == r.jobs[k].predecessors[q]
                 IN  /\ \E before \in 1..(k - 1) : r.jobs[before] = P
                     /\ \/ r.jobs[k].release_time.t = "none"
                        \/ ReleaseOrZero(P) + total_processing_time(P)
                             <= r.jobs[k].release_time.v

\* C19: generation yields the jobs, and every job that has both a due date
\* and a deadline has deadline >= due date.
C19_DeadlineAfterDue ==
    \A r \in EndedRuns :
        /\ GeneratedJobs(r)
        /\ \A k \in 1..Len(r.jobs) :
              (r.jobs[k].due_date.t # "none" /\ r.jobs[k].deadline.t # "none")
              => r.jobs[k].deadline.v >= r.jobs[k].due_date.v[1]

(***************************************************************************)
(* Properties of InstanceConfig (UnitSpec).                                *)
(***************************************************************************)
\* the ranges other than the eligible-machine count, as the claim states them
ClaimedOtherRanges(t) ==
    /\ t.process_time[1] > 0 /\ t.process_time[2] > 0
    /\ t.process_time[1] <= t.process_time[2]
    /\ t.machine_speed[1] > 0 /\ t.machine_speed[2] > 0
    /\ t.machine_speed[2] <= 20
    /\ t.machine_speed[1] <= t.machine_speed[2]
    /\ t.due_date_penalty[1] > 0 /\ t.due_date_penalty[2] > 0
    /\ t.due_date_penalty[1] <= t.due_date_penalty[2]
    /\ t.predecessors[1] >= 0 /\ t.predecessors[2] >= 0
    /\ t.predecessors[1] <= t.predecessors[2]

\* the eligible-machine count is not above the upper bound, when one is given
EligibleOrdered(t) ==
    t.eligible_machines.max_given => t.eligible_machines.min <= t.eligible_machines.max

\* C20 as claimed: deriving an InstanceConfig succeeds exactly when the
\* processing-time bounds are positive with min <= max, the machine-speed
\* bounds positive with max <= 2.0 and min <= max, the eligible-machine lower
\* bound non-negative and not above the upper bound when one is given, the
\* due-date-penalty bounds positive with min <= max and the predecessor
\* bounds non-negative with min <= max; the defaults are accepted.
C20_ClaimedRanges ==
    conf.status = "constructed"
    => LET t == conf.c.tunables
       IN  /\ (conf.c.raised = Ok)
              <=> (/\ ClaimedOtherRanges(t)
                   /\ t.eligible_machines.min >= 0
                   /\ EligibleOrdered(t))
           /\ t = DefaultTunables => conf.c.raised = Ok

\* C20 as amended: the same, with the eligible-machine lower bound positive;
\* any other derivation raises AssertionError.
C20_CodeRanges ==
    conf.status = "constructed"
    => LET t == conf.c.tunables
       IN  /\ (conf.c.raised = Ok)
              <=> (/\ ClaimedOtherRanges(t)
                   /\ t.eligible_machines.min > 0
                   /\ EligibleOrdered(t))
           /\ conf.c.raised # Ok => conf.c.raised = "AssertionError"
           /\ t = DefaultTunables => conf.c.raised = Ok

\* an eligible-machine range of (0, 2) with every other range valid: refused
C20_Witness ==
    /\ conf.status = "constructed"
    /\ conf.c.raised = "AssertionError"
    /\ conf.c.tunables.eligible_machines = [min |-> 0, max_given |-> TRUE, max |-> 2]
    /\ ClaimedOtherRanges(conf.c.tunables)

(***************************************************************************)
(* C21: add_operation on a machine M raises and leaves M's schedule        *)
(* unchanged whenever the operation is bound to a machine other than M, a  *)
(* machine with the same id in another center included; an operation that  *)
(* is unbound or bound to M itself is appended at the end of the schedule  *)
(* and the earlier entries keep their order.                               *)
(***************************************************************************)
BoundElsewhere(m, operation) ==
    /\ operation.machine.t # "none"
    /\ operation.machine.v # MachineRef(m.center, m.id)

C21_AddOperation ==
    [][(mach.status = "constructed" /\ mach'.status = "constructed") =>
        IF BoundElsewhere(mach.m, mach'.operation)
        THEN /\ mach'.raised = "ValueError"
             /\ mach'.m.schedule = mach.m.schedule
        ELSE /\ mach'.raised = ""
             /\ mach'.m.schedule = Append(mach.m.schedule, mach'.operation)]_vars

\* the case the code accepts: the operation belongs to the machine with the
\* same id in the other center and is now the last entry of the schedule
C21_SameIdAppended ==
    /\ mach.status = "constructed"
    /\ mach.calls > 0
    /\ mach.raised = ""
    /\ BoundElsewhere(mach.m, mach.operation)
    /\ mach.operation.machine.v.id = mach.m.id
    /\ mach.m.schedule[Len(mach.m.schedule)] = mach.operation

(***************************************************************************)
(* C22: the first initialize_operation(job, machine) sets the operation's  *)
(* job, machine and name; every later call, with the same or different     *)
(* arguments, leaves the operation as it is.                               *)
(***************************************************************************)
BoundName(init_job, machine) ==
    IF machine.t = "none"
    THEN Concat(<<"O(J", ToString(init_job.id), ")">>)
    ELSE Concat(<<"O(J", ToString(init_job.id), "M", ToString(machine.v.id), ")">>)

C22_BindOnce ==
    [][(op.status = "constructed" /\ op'.status = "constructed") =>
        IF op.calls = 0
        THEN /\ op'.o.job = Some(op'.job)
             /\ op'.o.machine = op'.machine
             /\ op'.o.name = BoundName(op'.job, op'.machine)
        ELSE /\ op'.o.job = op.o.job
             /\ op'.o.machine = op.o.machine
             /\ op'.o.name = op.o.name]_vars

\* a second call with another job and another machine left the first binding
C22_Witness ==
    /\ op.status = "constructed"
    /\ op.calls = 2
    /\ op.o.job # Some(op.job)
    /\ op.o.machine # op.machine
    /\ op.o.name # BoundName(op.job, op.machine)

(***************************************************************************)
(* Properties of the generated jobs and machines (GenSpec).                *)
(***************************************************************************)
Ascending(n) == [k \in 1..n |-> k - 1]

FlowShopFamily ==
    {FLOWSHOP, FLEXIBLE_FLOWSHOP_IDENTICAL, FLEXIBLE_FLOWSHOP_DIFFERENT,
     FLEXIBLE_FLOWSHOP_UNRELATED}

JobShopFamily ==
    {JOBSHOP, FLEXIBLE_JOBSHOP_IDENTICAL, FLEXIBLE_JOBSHOP_DIFFERENT,
     FLEXIBLE_JOBSHOP_UNRELATED}

OpenShopFamily ==
    {OPENSHOP, FLEXIBLE_OPENSHOP_IDENTICAL, FLEXIBLE_OPENSHOP_DIFFERENT,
     FLEXIBLE_OPENSHOP_UNRELATED}

\* C23: generation yields the jobs, and the sequence of each job follows the
\* alpha family: the ascending sequence 0,1,... for a flow shop, a
\* permutation of the job's own for a job shop (never no sequence), empty or
\* unset for an open shop.
C23_SequenceByFamily ==
    \A r \in EndedRuns :
        /\ GeneratedJobs(r)
        /\ \A k \in 1..Len(r.jobs) :
              LET j == r.jobs[k]
                  n == Len(j.operations)
              IN  /\ env.alpha \in FlowShopFamily
                        => j.sequence = Some(Ascending(n))
                  /\ env.alpha \in JobShopFamily
                        => j.sequence.t # "none" /\ IsPermutation(j.sequence.v, n)
                  /\ env.alpha \in OpenShopFamily
                        => j.sequence.t = "none" \/ j.sequence.v = <<>>

CeilDiv(a, b) == (a + b - 1) \div b

\* the largest release time for the estimate est and release_factor 0.5
ReleaseBound(est) == CeilDiv(est, 2)

\* ceil(num_jobs * mean(min, max processing time) / num_centers), and the
\* same divided by the machine count
MakespanEstimates(config) ==
    LET base == CeilDiv(config.num_jobs * (config.tunables.process_time[1]
                                           + config.tunables.process_time[2]),
                        2 * config.num_centers)
    IN  {base, CeilDiv(base, config.num_machines)}

\* C24: generation yields the jobs, and each job has a release time exactly
\* when release times are in beta, a (due date, penalty) pair exactly when
\* due dates are, a deadline exactly when deadlines are; the release times
\* lie in [0, ceil(estimate * release_factor)] for one makespan estimate of
\* the instance.
C24_TimingWindows ==
    \A r \in EndedRuns :
        /\ GeneratedJobs(r)
        /\ \A k \in 1..Len(r.jobs) :
              /\ r.jobs[k].release_time.t # "none" <=> RELEASE_TIMES \in SymbolsOf(env.beta)
              /\ r.jobs[k].due_date.t # "none" <=> DUE_DATES \in SymbolsOf(env.beta)
              /\ r.jobs[k].due_date.t # "none" => Len(r.jobs[k].due_date.v) = 2
              /\ r.jobs[k].deadline.t # "none" <=> DEADLINES \in SymbolsOf(env.beta)
        /\ \E est \in MakespanEstimates(r.config) :
              \A k \in 1..Len(r.jobs) :
                 r.jobs[k].release_time.t # "none"
                 => r.jobs[k].release_time.v \in 0..ReleaseBound(est)

\* the run created the machines: num_centers centers of num_machines each
GeneratedMachines(r) ==
    /\ Len(r.centers) = env.num_centers
    /\ \A c \in 1..Len(r.centers) : Len(r.centers[c].machines) = env.num_machines

\* C25: the topology step creates the machines, and each machine has speed
\* 1.0 unless alpha is a different or unrelated speed model (then a speed in
\* the configured range), a setup-time table, empty, exactly when s_ij or
\* s_jk is in beta, and a breakdown list, empty at the end of the
\* generation, exactly when breakdowns are in beta.
C25_MachineFlags ==
    \A r \in EndedRuns :
        /\ GeneratedMachines(r)
        /\ \A c \in 1..Len(r.centers) :
              \A k \in 1..Len(r.centers[c].machines) :
                 LET m == r.centers[c].machines[k]
                     speeds == r.config.tunables.machine_speed
                 IN  /\ IF env.alpha \in
                              {PARALLEL_DIFFERENT, FLEXIBLE_FLOWSHOP_DIFFERENT,
                               FLEXIBLE_JOBSHOP_DIFFERENT, FLEXIBLE_OPENSHOP_DIFFERENT,
                               PARALLEL_UNRELATED, FLEXIBLE_FLOWSHOP_UNRELATED,
                               FLEXIBLE_JOBSHOP_UNRELATED, FLEXIBLE_OPENSHOP_UNRELATED}
                        THEN m.processing_speed \in speeds[1]..speeds[2]
                        ELSE m.processing_speed = 10
                     /\ m.has_setup_times
                           <=> (SETUP_TIMES \in SymbolsOf(env.beta)
                                \/ SEQUENCE_DEPENDENT_SETUP \in SymbolsOf(env.beta))
                     /\ m.has_setup_times => m.setup_times = {}
                     /\ m.has_breakdowns <=> BREAKDOWNS \in SymbolsOf(env.beta)
                     /\ m.has_breakdowns => m.breakdowns = <<>>

\* all machines of all centers of a run
AllMachines(r) ==
    UNION {{MachineRef(r.centers[c].id, r.centers[c].machines[k].id) :
                k \in 1..Len(r.centers[c].machines)} : c \in 1..Len(r.centers)}

\* C26: generation yields the jobs, and for every operation of every job the
\* eligible machines are all machines of all centers when eligibility is
\* off and a non-empty duplicate-free subset of them when it is on, and the
\* operation has a processing time for each eligible machine and no other.
C26_EligibleMachines ==
    \A r \in EndedRuns :
        /\ GeneratedJobs(r)
        /\ GeneratedMachines(r)
        /\ \A k \in 1..Len(r.jobs) :
              \A o \in 1..Len(r.jobs[k].operations) :
                 LET operation == r.jobs[k].operations[o]
                     eligible == operation.eligible_machines.v
                     eligible_set == {eligible[x] : x \in 1..Len(eligible)}
                 IN  /\ Cardinality(eligible_set) = Len(eligible)
                     /\ IF r.config.eligible
                        THEN eligible_set # {} /\ eligible_set \subseteq AllMachines(r)
                        ELSE eligible_set = AllMachines(r)
                     /\ DOMAIN operation.processing_times.v = eligible_set

====
